---- MODULE Spec2Model ----
(***************************************************************************)
(* Model of the shadowyapparatus balance scanners (balance_api.py,         *)
(* check_balance.py), of the HTTP facade around the first of them, and of  *)
(* the send flow and the validate command of shadowy_cli.py.               *)
(*                                                                         *)
(* The block source (the Tendermint RPC) is the environment.  The reply to *)
(* /status is chosen when it is requested.  The reply to /block?height=h   *)
(* fixes, when it is requested, whether the fetch fails and how many       *)
(* records the block holds; each record is fixed when the scanner reads    *)
(* it, and the records the scanner never reads (those after a record that  *)
(* raised) are fixed at the raise.  Each height is requested at most once  *)
(* per scan and the scanner never looks ahead, so this is the same as      *)
(* scanning a chain fixed in advance.                                      *)
(***************************************************************************)
EXTENDS Integers, Sequences, FiniteSets, TLC

(***************************************************************************)
(* Bounds of the model.                                                    *)
(***************************************************************************)
\* largest latest_block_height the status reply reports
MaxHeight == 2
\* largest number of transaction records in one block
MaxTxs == 2

\* largest number of candidates the bridge returns for one lookup
MaxUtxos == 3

\* longest address argument of the validate command
MaxAddrLen == 52

(***************************************************************************)
(* Data of the block source.                                               *)
(***************************************************************************)
Addresses == {"S1", "S2"}

\* the two scanners: BalanceHandler.calculate_balance and
\* check_balance.calculate_balance
Impls == {"api", "script"}

\* A transport-encoded blob is either undecodable (base64 or JSON fails)
\* or carries a JSON object, a record whose fields may be absent.
Blob(j) == [decodable |-> TRUE, json |-> j]
Garbage == [decodable |-> FALSE]

Out(a, v) == [address |-> a, value |-> v]

\* signed transactions the block source can serve
Reward1 == Blob([algorithm |-> "coinbase", signer_key |-> "S1",
                 transaction |-> Blob([outputs |-> <<Out("S1", 2)>>])])
Reward2 == Blob([algorithm |-> "coinbase", signer_key |-> "S1",
                 transaction |-> Blob([outputs |-> <<Out("S1", 1), Out("S1", 1)>>])])
ForeignReward == Blob([algorithm |-> "coinbase", signer_key |-> "S2",
                 transaction |-> Blob([outputs |-> <<Out("S1", 2), Out("S2", 2)>>])])
Transfer == Blob([algorithm |-> "ML-DSA-87", signer_key |-> "S1",
                 transaction |-> Blob([outputs |-> <<Out("S1", 2)>>])])
BadInner == Blob([algorithm |-> "coinbase", signer_key |-> "S1",
                 transaction |-> Garbage])
NoInner == Blob([algorithm |-> "coinbase", signer_key |-> "S1"])
NoOutputs == Blob([algorithm |-> "coinbase", signer_key |-> "S1",
                 transaction |-> Blob([inputs |-> <<>>])])
NoValue == Blob([algorithm |-> "coinbase", signer_key |-> "S1",
                 transaction |-> Blob([outputs |-> <<[address |-> "S1"], Out("S2", 2)>>])])

TxPalette == {Reward1, Reward2, ForeignReward, Transfer, Garbage,
              BadInner, NoInner, NoOutputs, NoValue}

\* the sequences of exactly n elements of S
RECURSIVE SeqsOfLen(_, _)
SeqsOfLen(S, n) ==
    IF n = 0 THEN {<<>>}
    ELSE {Append(s, x) : s \in SeqsOfLen(S, n - 1), x \in S}

\* replies to GET /block?height=h: the request fails (network error, bad
\* JSON, missing keys), or result.block.data.txs is null, or it is a list
\* of n records
BlockReplies ==
    {[kind |-> "error"], [kind |-> "null"]}
        \cup {[kind |-> "list", n |-> n] : n \in 0..MaxTxs}

\* replies to GET /status
StatusReplies ==
    {[kind |-> "error"]} \cup {[kind |-> "ok", latest_block_height |-> n] : n \in 0..MaxHeight}

(***************************************************************************)
(* State.                                                                  *)
(***************************************************************************)
VARIABLES
    \* ---- scan (calculate_balance) ----
    impl,               \* which scanner runs
    address,            \* the target address
    pc,                 \* position of the scan
    latest_height,
    height,             \* loop variable of range(1, latest_height + 1)
    nTxs,               \* len(txs) of the block being processed
    idx,                \* 1-based position of the for loop over txs
    tx_b64,             \* the record read last
    balance,
    mining_rewards,
    result,             \* what calculate_balance returned or raised
    \* ---- history of the scan ----
    requested,          \* heights asked of the block source, in order
    lastOutcome,        \* how the last finished height ended, or
                        \* "status_error" when the height query failed
    failures,           \* number of heights that took the except branch
    allOk,              \* every fetch and every decode so far can succeed
    truthBalance,       \* ground-truth sum over the blocks served so far
    truthCount,         \* ground-truth number of qualifying transactions
    blockStartBalance,  \* balance when the current block was requested
    blockStartRewards,  \* mining_rewards when the current block was requested
    blockValidSum,      \* ground truth of the decodable records of the block
    blockCorrupt,       \* the block holds an undecodable record
    lastReply,          \* kind of the block source's reply to the last request
    \* ---- a second query of the same chain ----
    chain,              \* the replies of the block source, by height
    scanNo,             \* which query runs, 1 or 2
    firstResult,        \* what the first query returned
    \* ---- the HTTP facade (BalanceHandler) ----
    path,               \* self.path split at '/'
    response,           \* None or the response sent
    \* ---- the `validate` command ----
    cli_address,        \* command-line argument
    validatePc,         \* position of the validate command
    validate_result,    \* None or what validate_address returned
    \* ---- ShadowyWASM object and the `wallet send` command ----
    current_client,     \* None or the client record's url
    current_wallet,     \* None or [name, address]
    sendPc,             \* position of the send command
    to_address,         \* command-line argument
    amount,             \* command-line argument, a float
    token_id,           \* command-line option --token, None when absent
    utxos,              \* the candidates of send_transaction
    amount_satoshis,
    total_needed,
    selected_utxos,
    total_selected,
    transaction_data,   \* the record handed to the signer
    signed_tx,          \* what sign_transaction returned
    send_result,        \* what send_transaction returned
    \* ---- history of the send ----
    fetched,            \* the candidates as get_address_utxos returned them
    lookup,             \* what the bridge replied to get_utxos
    calls               \* endpoints of the WASM bridge called, in order

scanVars == <<impl, address, pc, latest_height, height, nTxs, idx, tx_b64,
              balance, mining_rewards, result, requested, lastOutcome,
              failures, allOk, truthBalance, truthCount, blockStartBalance,
              blockStartRewards, blockValidSum, blockCorrupt, lastReply>>

sendVars == <<current_client, current_wallet, sendPc, to_address, amount,
              token_id, utxos, amount_satoshis, total_needed, selected_utxos,
              total_selected, transaction_data, signed_tx, send_result, fetched,
              lookup, calls>>

repeatVars == <<chain, scanNo, firstResult>>

httpVars == <<path, response>>

validateVars == <<cli_address, validatePc, validate_result>>

vars == <<scanVars, sendVars, repeatVars, httpVars, validateVars>>

\* what a step of the scan leaves alone
outsideScan == <<sendVars, repeatVars, httpVars, validateVars>>

\* what a step of the send command leaves alone
outsideSend == <<scanVars, repeatVars, httpVars, validateVars>>

(***************************************************************************)
(* dict.get(key, default)                                                  *)
(***************************************************************************)
Get(d, k, default) == IF k \in DOMAIN d THEN d[k] ELSE default

\* smallest units per display unit
SatoshisPerShadow == 100000000

(***************************************************************************)
(* Ground truth of the chain, computed from the blobs as served: the sum   *)
(* of the outputs addressed to the target inside coinbase transactions     *)
(* signed by the target, and the number of such transactions.              *)
(***************************************************************************)
RECURSIVE SumSeq(_)
SumSeq(s) == IF s = <<>> THEN 0 ELSE Head(s) + SumSeq(Tail(s))

IsRewardFor(blob, a) ==
    /\ blob.decodable
    /\ "algorithm" \in DOMAIN blob.json /\ blob.json.algorithm = "coinbase"
    /\ "signer_key" \in DOMAIN blob.json /\ blob.json.signer_key = a

\* every stage of the record decodes
WellFormed(blob) ==
    /\ blob.decodable
    /\ "transaction" \in DOMAIN blob.json
    /\ blob.json.transaction.decodable

PaysTo(blob, a) ==
    /\ WellFormed(blob)
    /\ "outputs" \in DOMAIN blob.json.transaction.json
    /\ \E i \in DOMAIN blob.json.transaction.json.outputs :
          LET o == blob.json.transaction.json.outputs[i]
          IN  "address" \in DOMAIN o /\ o.address = a

TruthOfTx(blob, a) ==
    IF IsRewardFor(blob, a) /\ WellFormed(blob)
           /\ "outputs" \in DOMAIN blob.json.transaction.json
    THEN LET outs == blob.json.transaction.json.outputs
         IN  SumSeq([i \in DOMAIN outs |->
                       IF "address" \in DOMAIN outs[i] /\ outs[i].address = a
                              /\ "value" \in DOMAIN outs[i]
                       THEN outs[i].value ELSE 0])
    ELSE 0

CountOfTx(blob, a) == IF IsRewardFor(blob, a) THEN 1 ELSE 0

TruthOfBlock(b, a) == SumSeq([i \in DOMAIN b |-> TruthOfTx(b[i], a)])

CountOfBlock(b, a) == SumSeq([i \in DOMAIN b |-> CountOfTx(b[i], a)])

CorruptIn(b) == \E i \in DOMAIN b : ~WellFormed(b[i])

(***************************************************************************)
(* The scanners' code.                                                     *)
(***************************************************************************)
\* base64.b64decode + json.loads: a value, or an exception
decode_transaction(blob) ==
    IF blob.decodable THEN [raised |-> FALSE, value |-> blob.json]
    ELSE [raised |-> TRUE]

decode_inner_transaction(inner_tx_b64) == decode_transaction(inner_tx_b64)

\* a scanner that forgets the signer check
QualifiesAnySigner(signed, a) ==
    Get(signed, "algorithm", "None") = "coinbase"

\* signed_tx.get('algorithm') == 'coinbase' and signed_tx.get('signer_key') == address
Qualifies(signed, a) ==
    /\ Get(signed, "algorithm", "None") = "coinbase"
    /\ Get(signed, "signer_key", "None") = a

\* a scanner that sums every output, whoever it pays
RECURSIVE SumOutputsAnyAddress(_, _, _)
SumOutputsAnyAddress(outputs, a, acc) ==
    IF outputs = <<>> THEN acc
    ELSE LET output == Head(outputs)
         IN  SumOutputsAnyAddress(Tail(outputs), a,
                 [balance |-> acc.balance + Get(output, "value", 0),
                  mining_rewards |-> acc.mining_rewards + 1])

\* for output in inner_tx.get('outputs', []): the two counters after the loop
RECURSIVE SumOutputs(_, _, _)
SumOutputs(outputs, a, acc) ==
    IF outputs = <<>> THEN acc
    ELSE LET output == Head(outputs)
             next == IF Get(output, "address", "None") = a
                     THEN [balance |-> acc.balance + Get(output, "value", 0),
                           mining_rewards |-> acc.mining_rewards + 1]
                     ELSE acc
         IN  SumOutputs(Tail(outputs), a, next)

\* the body of `for tx_b64 in txs`: the counters after one record, or raised
ProcessRecord(blob, a, acc) ==
    LET signed == decode_transaction(blob)
    IN  IF signed.raised THEN [raised |-> TRUE]
        ELSE IF ~Qualifies(signed.value, a) THEN [raised |-> FALSE, acc |-> acc]
        ELSE IF "transaction" \notin DOMAIN signed.value THEN [raised |-> TRUE]
        ELSE LET inner_tx == decode_inner_transaction(signed.value.transaction)
             IN  IF inner_tx.raised THEN [raised |-> TRUE]
                 ELSE [raised |-> FALSE,
                       acc |-> SumOutputs(Get(inner_tx.value, "outputs", <<>>), a, acc)]

\* a scanner that asks for the failed height again
ExceptRetry(kind) ==
    /\ lastOutcome' = kind
    /\ failures' = failures + 1
    /\ height' = height
    /\ pc' = "loop"
    /\ UNCHANGED <<balance, mining_rewards, result>>

\* a scanner that lets the exception end the scan
ExceptAbort(kind) ==
    /\ lastOutcome' = kind
    /\ failures' = failures + 1
    /\ pc' = "error"
    /\ result' = [kind |-> "raised", message |-> kind]
    /\ UNCHANGED <<balance, mining_rewards, height>>

\* except Exception as e: print(...); continue
ExceptContinue(kind) ==
    /\ lastOutcome' = kind
    /\ failures' = failures + 1
    /\ height' = height + 1
    /\ pc' = "loop"
    /\ UNCHANGED <<balance, mining_rewards, result>>

\* the block's records are exhausted (or the block is skipped as empty)
BlockDone ==
    /\ lastOutcome' = "ok"
    /\ height' = height + 1
    /\ pc' = "loop"
    /\ UNCHANGED <<failures, result>>

\* a facade scanner whose error path for a null txs loses what it counted
NullTxsLosesCount ==
    IF impl = "script"
    THEN BlockDone /\ UNCHANGED <<balance, mining_rewards>>
    ELSE /\ lastOutcome' = "txs_error"
         /\ failures' = failures + 1
         /\ height' = height + 1
         /\ pc' = "loop"
         /\ balance' = 0
         /\ mining_rewards' = 0
         /\ UNCHANGED result

\* txs is null.  script: `if not txs: continue`; api: `for tx_b64 in txs`
\* raises TypeError inside the try
NullTxs ==
    IF impl = "script"
    THEN BlockDone /\ UNCHANGED <<balance, mining_rewards>>
    ELSE ExceptContinue("txs_error")

(***************************************************************************)
(* Data of the send flow.                                                  *)
(***************************************************************************)
None == [none |-> TRUE]

\* An address string, as far as the code looks at it: its first character
\* and its length; id tells addresses of the same shape apart.
Addr(first, len, id) == [first |-> first, len |-> len, id |-> id]

\* the address of the wallet the bridge loads
WalletAddress == Addr("S", 51, "sender")

\* recipient arguments of the command line
ToAddresses ==
    {Addr(c, n, "recipient") : c \in {"S", "T"}, n \in {50, 51, 52}} \cup {WalletAddress}

\* A float amount in display units.  A finite amount has amount * 100000000
\* in [floor, floor + 1), above floor when frac = 1; the other floats the
\* command line accepts are nan and inf.
Amount(floor, frac) == [finite |-> TRUE, floor |-> floor, frac |-> frac]
NotFinite == [finite |-> FALSE, floor |-> 0, frac |-> 0]

Amounts ==
    {Amount(f, h) : f \in {-100000, 0, 100000, 300000, 1200000000, 1499900000},
                    h \in {0, 1}} \cup {NotFinite}

\* --token: absent, empty, or a token id
TokenIds == {"None", "", "TOKEN1"}

\* values the bridge reports for a candidate; -1 stands for a candidate
\* that carries no value field
UtxoValueChoices == {-1, 0, 100000, 200000, 300000}

\* the i-th candidate of a bridge reply
BridgeUtxo(i, v) ==
    IF v = -1 THEN [txid |-> i, vout |-> i % 2]
    ELSE [txid |-> i, vout |-> i % 2, value |-> v]

BridgeUtxoLists ==
    {[i \in 1..Len(vs) |-> BridgeUtxo(i, vs[i])] :
        vs \in UNION {SeqsOfLen(UtxoValueChoices, n) : n \in 0..MaxUtxos}}

\* replies of the bridge to get_utxos: an error, a bare array, an object
\* with a utxos array, or an object without one
UtxoReplies ==
    {[kind |-> "error"], [kind |-> "object"]}
        \cup {[kind |-> k, utxos |-> us] : k \in {"array", "object"}, us \in BridgeUtxoLists}

\* replies of the bridge to the other endpoints
BridgeReplies == {"ok", "error"}

\* replies of the bridge to sign_transaction: a signed transaction, an
\* error, or a reply without the keys sign_transaction reads
SignReplies == {"ok", "error", "malformed"}

\* transaction ids the signer can return
TxIds == {"tx1", "tx2"}

\* the send command has not been started
SendQuiet ==
    /\ current_client = None
    /\ current_wallet = None
    /\ sendPc = "cli"
    /\ to_address = WalletAddress
    /\ amount = Amount(0, 0)
    /\ token_id = "None"
    /\ utxos = <<>>
    /\ amount_satoshis = 0
    /\ total_needed = 0
    /\ selected_utxos = <<>>
    /\ total_selected = 0
    /\ transaction_data = None
    /\ signed_tx = None
    /\ send_result = None
    /\ fetched = <<>>
    /\ lookup = "none"
    /\ calls = <<>>

\* there is no second query
RepeatQuiet ==
    /\ chain = <<>>
    /\ scanNo = 1
    /\ firstResult = None

\* no request has reached the facade
HttpQuiet ==
    /\ path = <<>>
    /\ response = None

\* the validate command has not been started
ValidateQuiet ==
    /\ cli_address = WalletAddress
    /\ validatePc = "cli"
    /\ validate_result = None

(***************************************************************************)
(* Scan: initial state and steps.                                          *)
(***************************************************************************)
\* the locals of calculate_balance and the history of the scan before the
\* first statement
ScanFresh ==
    /\ latest_height = 0
    /\ height = 1
    /\ nTxs = 0
    /\ idx = 1
    /\ tx_b64 = Garbage
    /\ balance = 0
    /\ mining_rewards = 0
    /\ requested = <<>>
    /\ lastOutcome = "none"
    /\ failures = 0
    /\ allOk = TRUE
    /\ truthBalance = 0
    /\ truthCount = 0
    /\ blockStartBalance = 0
    /\ blockStartRewards = 0
    /\ blockValidSum = 0
    /\ blockCorrupt = FALSE
    /\ lastReply = "none"

ScanInit ==
    /\ SendQuiet
    /\ RepeatQuiet
    /\ HttpQuiet
    /\ ValidateQuiet
    /\ impl \in Impls
    /\ address \in Addresses
    /\ pc = "start"
    /\ result = [kind |-> "none"]
    /\ ScanFresh

\* a scanner that keeps its counters from one call to the next
KeepCounters == UNCHANGED <<balance, mining_rewards>>

\* balance = 0; mining_rewards = 0
InitCounters == balance' = 0 /\ mining_rewards' = 0

\* a scanner that takes a failed height query for a chain of height 0
GetLatestHeightZeroOnError(reply) ==
    /\ pc = "start"
    /\ pc' = "loop"
    /\ latest_height' = IF reply.kind = "error" THEN 0 ELSE reply.latest_block_height
    /\ lastOutcome' = IF reply.kind = "error" THEN "status_error" ELSE lastOutcome
    /\ height' = 1
    /\ InitCounters
    /\ UNCHANGED <<impl, address, nTxs, idx, tx_b64, result,
                   requested, failures, allOk,
                   truthBalance, truthCount, blockStartBalance,
                   blockStartRewards, blockValidSum, blockCorrupt, lastReply>>
    /\ UNCHANGED outsideScan

\* requests.get(.../status); int(data['result']['sync_info']['latest_block_height']);
\* the counters and the loop variable start
GetLatestHeightWith(reply) ==
    /\ pc = "start"
    /\ IF reply.kind = "error"
       THEN /\ pc' = "error"
            /\ result' = IF impl = "api"
                         THEN [kind |-> "raised", message |-> "Failed to calculate balance"]
                         ELSE [kind |-> "raised", message |-> "status"]
            /\ lastOutcome' = "status_error"
            /\ UNCHANGED <<latest_height, height, balance, mining_rewards>>
       ELSE /\ pc' = "loop"
            /\ latest_height' = reply.latest_block_height
            /\ height' = 1
            /\ InitCounters
            /\ UNCHANGED <<result, lastOutcome>>
    /\ UNCHANGED <<impl, address, nTxs, idx, tx_b64,
                   requested, failures, allOk,
                   truthBalance, truthCount, blockStartBalance,
                   blockStartRewards, blockValidSum, blockCorrupt, lastReply>>
    /\ UNCHANGED outsideScan

GetLatestHeight == \E reply \in StatusReplies : GetLatestHeightWith(reply)

\* a loop whose end follows the height of the chain as it is now
RangeEndLive == Len(chain)

\* the last height of range(1, latest_height + 1): the range object is
\* built once, from the height read before the loop
RangeEnd == latest_height

\* one iteration of `for height in range(1, latest_height + 1)` up to the
\* start of the loop over txs
FetchBlockWith(reply) ==
    /\ pc = "loop"
    /\ height <= RangeEnd
    /\ requested' = Append(requested, height)
    /\ blockStartBalance' = balance
    /\ blockStartRewards' = mining_rewards
    /\ blockValidSum' = 0
    /\ blockCorrupt' = FALSE
    /\ idx' = 1
    /\ lastReply' = reply.kind
    /\ allOk' = (allOk /\ reply.kind # "error")
    /\ nTxs' = IF reply.kind = "list" THEN reply.n ELSE 0
    /\ CASE reply.kind = "error" -> ExceptContinue("fetch_error")
         [] reply.kind = "null" -> NullTxs
         [] reply.kind = "list" /\ reply.n = 0 ->
              BlockDone /\ UNCHANGED <<balance, mining_rewards>>
         [] OTHER ->
              /\ pc' = "txs"
              /\ UNCHANGED <<height, lastOutcome, failures, balance,
                             mining_rewards, result>>
    /\ UNCHANGED <<impl, address, latest_height, tx_b64, truthBalance, truthCount>>
    /\ UNCHANGED outsideScan

FetchBlock == \E reply \in BlockReplies : FetchBlockWith(reply)

\* one iteration of `for tx_b64 in txs`; unread is what the block holds
\* after this record when the record raises
ProcessTxWith(blob, Unread) ==
    /\ pc = "txs"
    /\ LET r == ProcessRecord(blob, address,
                                 [balance |-> balance, mining_rewards |-> mining_rewards])
          IN  /\ tx_b64' = blob
              /\ IF r.raised
                 THEN \E unread \in Unread :
                         /\ ExceptContinue("tx_error")
                         /\ idx' = idx
                         /\ allOk' = FALSE
                         /\ blockCorrupt' = TRUE
                         /\ truthBalance' = truthBalance + TruthOfTx(blob, address)
                                                + TruthOfBlock(unread, address)
                         /\ truthCount' = truthCount + CountOfTx(blob, address)
                                                + CountOfBlock(unread, address)
                         /\ blockValidSum' = blockValidSum + TruthOfTx(blob, address)
                                                + TruthOfBlock(unread, address)
                 ELSE /\ balance' = r.acc.balance
                      /\ mining_rewards' = r.acc.mining_rewards
                      /\ allOk' = (allOk /\ WellFormed(blob))
                      /\ blockCorrupt' = (blockCorrupt \/ ~WellFormed(blob))
                      /\ truthBalance' = truthBalance + TruthOfTx(blob, address)
                      /\ truthCount' = truthCount + CountOfTx(blob, address)
                      /\ blockValidSum' = blockValidSum + TruthOfTx(blob, address)
                      /\ IF idx = nTxs
                         THEN BlockDone /\ UNCHANGED idx
                         ELSE /\ idx' = idx + 1
                              /\ UNCHANGED <<pc, height, lastOutcome, failures, result>>
    /\ UNCHANGED <<impl, address, latest_height, nTxs, requested,
                   blockStartBalance, blockStartRewards, lastReply>>
    /\ UNCHANGED outsideScan

ProcessTx ==
    \E blob \in TxPalette : ProcessTxWith(blob, SeqsOfLen(TxPalette, nTxs - idx))

\* the range is exhausted: return
Return ==
    /\ pc = "loop"
    /\ height > RangeEnd
    /\ pc' = "done"
    /\ result' = IF impl = "api"
                 THEN [kind |-> "ok", balance |-> balance, mining_rewards |-> mining_rewards]
                 ELSE [kind |-> "ok", balance |-> balance]
    /\ UNCHANGED <<impl, address, latest_height, height, nTxs, idx, tx_b64,
                   balance, mining_rewards, requested, lastOutcome, failures,
                   allOk, truthBalance, truthCount, blockStartBalance,
                   blockStartRewards, blockValidSum, blockCorrupt, lastReply>>
    /\ UNCHANGED outsideScan

ScanNext == GetLatestHeight \/ FetchBlock \/ ProcessTx \/ Return

ScanSpec == ScanInit /\ [][ScanNext]_vars

\* the interpreter runs the scan to its end
FairScanSpec == ScanSpec /\ WF_vars(ScanNext)

(***************************************************************************)
(* Claims about the scan.                                                  *)
(***************************************************************************)
AtBlockBoundary == pc \in {"loop", "done"} /\ lastOutcome # "none"

\* C1: when every fetch and decode succeeds, the reward count of a finished
\* scan is the number of qualifying transactions (coinbase, signed by the
\* target), however many outputs each of them pays to the target.
C1_RewardCountPerTransaction ==
    (pc = "done" /\ allOk) => mining_rewards = truthCount

\* C2: when every fetch and decode succeeds, the balance a finished scan
\* returns is the ground-truth sum of the outputs addressed to the target
\* inside coinbase transactions signed by the target, over heights 1..N.
C2_BalanceMatchesGroundTruth ==
    (pc = "done" /\ allOk) => result.balance = truthBalance

\* a finished clean scan of two or more heights with rewards in its last
\* block and in an earlier one
C2_Witness ==
    /\ pc = "done" /\ allOk
    /\ Len(requested) >= 2
    /\ blockValidSum > 0
    /\ truthBalance > blockValidSum

\* C3: a step changes the balance or the reward count only if it processes
\* a record whose algorithm is "coinbase" and whose signer-key is the target
\* address.
C3_OnlyQualifyingCounts ==
    [][(balance' # balance \/ mining_rewards' # mining_rewards)
          => (pc = "txs" /\ IsRewardFor(tx_b64', address))]_vars

\* the first record of a block pays the target but does not qualify, and
\* both counters are where they were when the block was requested
C3_Witness ==
    /\ pc = "txs" /\ idx = 2
    /\ ~IsRewardFor(tx_b64, address)
    /\ PaysTo(tx_b64, address)
    /\ balance = blockStartBalance
    /\ mining_rewards = blockStartRewards

\* C4: the heights requested from the block source are 1, 2, ... in
\* ascending order without gap or repeat, never beyond latest_height, and a
\* finished scan has requested every height up to latest_height.
C4_HeightsOnceInOrder ==
    /\ \A i \in 1..Len(requested) : requested[i] = i
    /\ Len(requested) <= latest_height
    /\ pc = "done" => Len(requested) = latest_height

\* a finished scan of two or more heights with a failed fetch and a height
\* after it
C4_Witness ==
    /\ pc = "done"
    /\ Len(requested) >= 2
    /\ failures = 1 /\ ~allOk /\ ~blockCorrupt /\ lastOutcome = "ok"

\* C5: a block that holds an undecodable record still tallies every valid
\* qualifying record of the block, before or after the undecodable one.
C5_CorruptRecordSkipped ==
    (AtBlockBoundary /\ blockCorrupt)
        => balance = blockStartBalance + blockValidSum

\* C6: the step that handles a failure at height h moves on to height h+1,
\* and every scan that got its latest height finishes with a result after
\* asking for every height.
C6_ScanNeverAborts ==
    /\ [][failures' > failures => (height' = height + 1 /\ pc' = "loop")]_vars
    /\ (pc = "loop") ~> (pc = "done" /\ result.kind = "ok"
                           /\ Len(requested) = latest_height)

\* a finished scan in which every height failed
C6_Witness ==
    /\ pc = "done" /\ result.kind = "ok"
    /\ Len(requested) >= 2
    /\ failures = Len(requested)

\* C7: a block whose processing failed leaves the balance and the reward
\* count at the values they had before that height.
C7_FailedBlockContributesNothing ==
    (AtBlockBoundary /\ lastOutcome # "ok")
        => (balance = blockStartBalance /\ mining_rewards = blockStartRewards)

\* the block source served the last block with no transactions: txs is
\* null or an empty list
LastBlockEmpty == lastReply \in {"null", "list"} /\ nTxs = 0

\* C18: a block with zero transactions (txs empty or null) contributes
\* nothing to the balance and to the reward count, does not take the
\* per-block error path, and the scan goes on with the next height.
C18_EmptyBlockNoError ==
    (AtBlockBoundary /\ LastBlockEmpty) =>
        /\ lastOutcome = "ok"
        /\ balance = blockStartBalance
        /\ mining_rewards = blockStartRewards
        /\ height = requested[Len(requested)] + 1

\* C26: if the chain-height query fails, the whole balance query fails
\* with an error (a 500 answer of the facade) before any block is fetched;
\* no partial or zero balance is returned as a success.
C26_StatusFailureFailsQuery ==
    lastOutcome = "status_error" =>
        /\ pc \in {"error", "closed"}
        /\ result.kind = "raised"
        /\ requested = <<>>
        /\ response # None => response.status = 500

\* the height query of the script failed and the scan ended with the error
C26_Witness ==
    /\ impl = "script"
    /\ lastOutcome = "status_error"
    /\ pc = "error"
    /\ result.kind = "raised"

\* every transport decoding of the record that is attempted succeeds: the
\* signed transaction decodes, and so does its inner payload when it has one
TransportDecodes(blob) ==
    /\ blob.decodable
    /\ "transaction" \in DOMAIN blob.json => blob.json.transaction.decodable

\* C22: fields missing from a decoded signed or inner transaction default
\* to 0/empty and never cause an error: a record without an outputs list,
\* an output without a value, or a record without an inner payload adds 0
\* and does not take the error path; only a transport-decode failure does.
C22_MissingFieldsDefault ==
    [][(pc = "txs" /\ TransportDecodes(tx_b64')) =>
          /\ failures' = failures
          /\ lastOutcome' # "tx_error"
          /\ balance' = balance + TruthOfTx(tx_b64', address)]_vars

\* a reward record for the target without an inner payload took the
\* error path
C22_MissingInnerRaised ==
    /\ tx_b64 = NoInner
    /\ address = "S1"
    /\ lastOutcome = "tx_error"
    /\ failures >= 1

\* the part of C22 that holds: a missing outputs list and a missing value
\* default without an error
C22_MissingOutputsOrValueDefault ==
    [][(pc = "txs" /\ tx_b64' \in {NoOutputs, NoValue}) =>
          /\ failures' = failures
          /\ balance' = balance]_vars

(***************************************************************************)
(* Two queries of the same chain, one after the other.                     *)
(***************************************************************************)
\* records of the chains that are scanned twice
RepeatPalette == {Reward2, Garbage}

\* what the block source holds at one height: a reply that fails, or a
\* block whose txs is null or a list of records
RepeatBlocks ==
    {[kind |-> "error"], [kind |-> "null"]}
        \cup {[kind |-> "list", txs |-> t] :
                 t \in UNION {SeqsOfLen(RepeatPalette, n) : n \in 0..MaxTxs}}

RepeatChains == UNION {SeqsOfLen(RepeatBlocks, n) : n \in 0..MaxHeight}

\* the reply to GET /block?height=h
ReplyAt(h) ==
    IF chain[h].kind = "list"
    THEN [kind |-> "list", n |-> Len(chain[h].txs)]
    ELSE [kind |-> chain[h].kind]

RepeatInit ==
    /\ SendQuiet
    /\ HttpQuiet
    /\ ValidateQuiet
    /\ chain \in RepeatChains
    /\ scanNo = 1
    /\ firstResult = None
    /\ impl \in Impls
    /\ address \in Addresses
    /\ pc = "start"
    /\ result = [kind |-> "none"]
    /\ ScanFresh

RepeatGetLatestHeight ==
    GetLatestHeightWith([kind |-> "ok", latest_block_height |-> Len(chain)])

RepeatFetchBlock ==
    /\ pc = "loop"
    /\ height <= RangeEnd
    /\ FetchBlockWith(ReplyAt(height))

RepeatProcessTx ==
    /\ pc = "txs"
    /\ LET txs == chain[height].txs
       IN  ProcessTxWith(txs[idx], {SubSeq(txs, idx + 1, Len(txs))})

RepeatReturn == Return

\* the first query has returned and the second begins: a new call of
\* calculate_balance (a new request to the facade, a new run of the script)
\* whose locals are not assigned yet
NextQuery ==
    /\ pc = "done"
    /\ scanNo = 1
    /\ scanNo' = 2
    /\ firstResult' = result
    /\ pc' = "start"
    /\ result' = [kind |-> "none"]
    /\ requested' = <<>>
    /\ lastOutcome' = "none"
    /\ failures' = 0
    /\ allOk' = TRUE
    /\ truthBalance' = 0
    /\ truthCount' = 0
    /\ blockStartBalance' = 0
    /\ blockStartRewards' = 0
    /\ blockValidSum' = 0
    /\ blockCorrupt' = FALSE
    /\ lastReply' = "none"
    /\ UNCHANGED <<impl, address, latest_height, height, nTxs, idx, tx_b64,
                   balance, mining_rewards, chain>>
    /\ UNCHANGED <<sendVars, httpVars, validateVars>>

RepeatNext ==
    \/ RepeatGetLatestHeight \/ RepeatFetchBlock \/ RepeatProcessTx
    \/ RepeatReturn \/ NextQuery

RepeatSpec == RepeatInit /\ [][RepeatNext]_vars

CompareInit ==
    /\ SendQuiet
    /\ HttpQuiet
    /\ ValidateQuiet
    /\ chain \in RepeatChains
    /\ scanNo = 1
    /\ firstResult = None
    /\ impl = "api"
    /\ address \in Addresses
    /\ pc = "start"
    /\ result = [kind |-> "none"]
    /\ ScanFresh

\* the facade's scan has returned; the script's scan of the same chain
\* begins, its locals not assigned yet
ScriptQuery ==
    /\ pc = "done"
    /\ scanNo = 1
    /\ impl = "api"
    /\ scanNo' = 2
    /\ impl' = "script"
    /\ firstResult' = result
    /\ pc' = "start"
    /\ result' = [kind |-> "none"]
    /\ requested' = <<>>
    /\ lastOutcome' = "none"
    /\ failures' = 0
    /\ allOk' = TRUE
    /\ truthBalance' = 0
    /\ truthCount' = 0
    /\ blockStartBalance' = 0
    /\ blockStartRewards' = 0
    /\ blockValidSum' = 0
    /\ blockCorrupt' = FALSE
    /\ lastReply' = "none"
    /\ UNCHANGED <<address, latest_height, height, nTxs, idx, tx_b64,
                   balance, mining_rewards, chain>>
    /\ UNCHANGED <<sendVars, httpVars, validateVars>>

CompareNext ==
    \/ RepeatGetLatestHeight \/ RepeatFetchBlock \/ RepeatProcessTx
    \/ RepeatReturn \/ ScriptQuery

CompareSpec == CompareInit /\ [][CompareNext]_vars

\* C27: the facade scan and the script scan return the same balance for
\* every chain, target address and pattern of per-block failures, blocks
\* whose txs is empty or null included.
C27_ScannersAgree ==
    (scanNo = 2 /\ pc = "done") =>
        /\ impl = "script"
        /\ firstResult.kind = "ok"
        /\ result.kind = "ok"
        /\ result.balance = firstResult.balance

\* both scanners returned the same balance above 0 for a chain that has a
\* block with null txs, which the script passed without a failure
C27_Witness ==
    /\ scanNo = 2
    /\ pc = "done"
    /\ result.balance > 0
    /\ result.balance = firstResult.balance
    /\ \E h \in DOMAIN chain : chain[h].kind = "null"
    /\ failures = 0

\* the same for a chain with a height whose request fails and a block with
\* an undecodable record
C27_WitnessFailures ==
    /\ scanNo = 2
    /\ pc = "done"
    /\ result.balance = firstResult.balance
    /\ \E h \in DOMAIN chain : chain[h].kind = "error"
    /\ \E h \in DOMAIN chain :
          chain[h].kind = "list" /\ chain[h].txs = <<Reward2, Garbage>>

(***************************************************************************)
(* A scan of a chain that grows while it is scanned.                       *)
(***************************************************************************)
\* what the loop body makes of the records of one block, from the
\* counters acc: the records in order, up to the first that raises
RECURSIVE ScanRecords(_, _, _)
ScanRecords(txs, a, acc) ==
    IF txs = <<>> THEN acc
    ELSE LET r == ProcessRecord(Head(txs), a, acc)
         IN  IF r.raised THEN acc ELSE ScanRecords(Tail(txs), a, r.acc)

\* what a scan makes of the chain c: the heights in order; a height whose
\* request fails or whose txs is null leaves the counters as they are
RECURSIVE ScanChain(_, _, _)
ScanChain(c, a, acc) ==
    IF c = <<>> THEN acc
    ELSE ScanChain(Tail(c), a,
                   IF Head(c).kind = "list"
                   THEN ScanRecords(Head(c).txs, a, acc)
                   ELSE acc)

\* the block source appends a block
ChainGrows ==
    /\ Len(chain) < MaxHeight
    /\ \E b \in RepeatBlocks : chain' = Append(chain, b)
    /\ UNCHANGED <<scanNo, firstResult>>
    /\ UNCHANGED <<scanVars, sendVars, httpVars, validateVars>>

GrowInit == RepeatInit

GrowNext ==
    \/ RepeatGetLatestHeight \/ RepeatFetchBlock \/ RepeatProcessTx
    \/ RepeatReturn \/ ChainGrows

GrowSpec == GrowInit /\ [][GrowNext]_vars

\* C28: the latest height is read once per scan, before the first block
\* fetch; if the chain grows while the scan runs no height above the
\* height read at the start is fetched, and the result is the scan result
\* of the chain prefix 1..latest_height.
C28_ScanOfInitialPrefix ==
    /\ [](\A i \in DOMAIN requested : requested[i] <= latest_height)
    /\ [](pc = "done" =>
            /\ Len(chain) >= latest_height
            /\ result.balance =
                  ScanChain(SubSeq(chain, 1, latest_height), address,
                            [balance |-> 0, mining_rewards |-> 0]).balance)
    /\ [][latest_height' # latest_height =>
             (pc = "start" /\ requested = <<>>)]_vars
    /\ [][pc' = "start" => pc = "start"]_vars

\* a scan that read height 1 returned a balance above 0 while the chain
\* has grown to two blocks, the second of them with a reward
C28_Witness ==
    /\ pc = "done"
    /\ latest_height = 1
    /\ Len(chain) = 2
    /\ chain[2].kind = "list" /\ chain[2].txs = <<Reward2>>
    /\ address = "S1"
    /\ result.balance = 2
    /\ requested = <<1>>

(***************************************************************************)
(* The HTTP facade: BalanceHandler.                                        *)
(***************************************************************************)
\* request paths, split at '/': the documented balance path, the same with
\* a trailing slash, a path without the address segment (with and without
\* a further segment), the bare prefix, and a path outside the API
Paths ==
    {<<"", "api", "v1", "address", "S1", "balance">>,
     <<"", "api", "v1", "address", "S1", "balance", "">>,
     <<"", "api", "v1", "address", "balance">>,
     <<"", "api", "v1", "address", "balance", "S1">>,
     <<"", "api", "v1", "address", "">>,
     <<"", "api", "v1", "address">>,
     <<"", "foo">>}

\* self.path.startswith('/api/v1/address/')
StartsWithApiAddress(parts) ==
    /\ Len(parts) >= 5
    /\ SubSeq(parts, 1, 4) = <<"", "api", "v1", "address">>

\* len(parts) >= 5 and parts[4] == 'balance' (parts[4] is the fifth part)
IsBalancePath(parts) == Len(parts) >= 5 /\ parts[5] = "balance"

\* The address the facade scans for is always the fourth part of a routed
\* path, the word "address"; the block source of the facade serves, besides
\* records for others and undecodable ones, rewards signed by that name.
RewardToRouted ==
    Blob([algorithm |-> "coinbase", signer_key |-> "address",
          transaction |-> Blob([outputs |-> <<Out("address", 3)>>])])

FacadePalette == {RewardToRouted, Reward1, Garbage}

\* value / 100000000.0: the whole display units and the remaining
\* smallest units
Display(v) == [whole |-> v \div SatoshisPerShadow, frac |-> v % SatoshisPerShadow]

\* send_404: status, Content-Type, body
Response404 ==
    [status |-> 404,
     headers |-> {<<"Content-Type", "text/plain">>},
     body |-> "Not Found"]

\* a body whose counters are exchanged
Response200CountAsBalance(a, info) ==
    [status |-> 200,
     headers |-> {<<"Content-Type", "application/json">>,
                  <<"Access-Control-Allow-Origin", "*">>},
     body |-> [address |-> a,
               balance |-> Display(info.balance),
               balance_satoshis |-> info.mining_rewards,
               confirmed |-> Display(info.balance),
               confirmed_satoshis |-> info.balance,
               unconfirmed |-> Display(0),
               unconfirmed_satoshis |-> 0,
               total_received |-> Display(info.balance),
               total_received_satoshis |-> info.balance,
               total_sent |-> Display(0),
               total_sent_satoshis |-> 0,
               transaction_count |-> info.balance,
               last_activity |-> ""]]

\* send_response(200) with its two headers and the JSON body
Response200(a, info) ==
    [status |-> 200,
     headers |-> {<<"Content-Type", "application/json">>,
                  <<"Access-Control-Allow-Origin", "*">>},
     body |-> [address |-> a,
               balance |-> Display(info.balance),
               balance_satoshis |-> info.balance,
               confirmed |-> Display(info.balance),
               confirmed_satoshis |-> info.balance,
               unconfirmed |-> Display(0),
               unconfirmed_satoshis |-> 0,
               total_received |-> Display(info.balance),
               total_received_satoshis |-> info.balance,
               total_sent |-> Display(0),
               total_sent_satoshis |-> 0,
               transaction_count |-> info.mining_rewards,
               last_activity |-> ""]]

\* send_error(500, message): the error page of BaseHTTPRequestHandler
Response500(message) ==
    [status |-> 500,
     headers |-> {<<"Content-Type", "text/html;charset=utf-8">>,
                  <<"Connection", "close">>},
     body |-> message]

\* a request has arrived at the facade
FacadeInit ==
    /\ SendQuiet
    /\ RepeatQuiet
    /\ ValidateQuiet
    /\ path \in Paths
    /\ response = None
    /\ impl = "api"
    /\ address = ""
    /\ pc = "idle"
    /\ result = [kind |-> "none"]
    /\ ScanFresh

\* do_GET: route the request; address = parts[3] (the fourth part)
DoGet ==
    /\ pc = "idle"
    /\ IF StartsWithApiAddress(path) /\ IsBalancePath(path)
       THEN /\ address' = path[4]
            /\ pc' = "start"
            /\ UNCHANGED response
       ELSE /\ response' = Response404
            /\ pc' = "closed"
            /\ UNCHANGED address
    /\ UNCHANGED <<impl, latest_height, height, nTxs, idx, tx_b64, balance,
                   mining_rewards, result, requested, lastOutcome, failures,
                   allOk, truthBalance, truthCount, blockStartBalance,
                   blockStartRewards, blockValidSum, blockCorrupt, lastReply>>
    /\ UNCHANGED path
    /\ UNCHANGED <<sendVars, repeatVars, validateVars>>

\* handle_balance_request after calculate_balance returned or raised
HandleBalanceRequest ==
    /\ pc \in {"done", "error"}
    /\ response = None
    /\ response' = IF pc = "done"
                   THEN Response200(address, result)
                   ELSE Response500("Error calculating balance")
    /\ pc' = "closed"
    /\ UNCHANGED <<impl, address, latest_height, height, nTxs, idx, tx_b64,
                   balance, mining_rewards, result, requested, lastOutcome,
                   failures, allOk, truthBalance, truthCount, blockStartBalance,
                   blockStartRewards, blockValidSum, blockCorrupt, lastReply>>
    /\ UNCHANGED path
    /\ UNCHANGED <<sendVars, repeatVars, validateVars>>

\* one record of the facade's block source goes through the loop body
FacadeProcessTx ==
    \E blob \in FacadePalette :
        ProcessTxWith(blob, SeqsOfLen(FacadePalette, nTxs - idx))

FacadeNext ==
    \/ DoGet
    \/ GetLatestHeight \/ FetchBlock \/ FacadeProcessTx \/ Return
    \/ HandleBalanceRequest

FacadeSpec == FacadeInit /\ [][FacadeNext]_vars

\* C20: every response of the facade, whatever its status, carries the
\* header Access-Control-Allow-Origin: *.
C20_CorsOnEveryResponse ==
    response # None => <<"Access-Control-Allow-Origin", "*">> \in response.headers

\* the three statuses the facade answers with
C20_Statuses ==
    response # None => response.status \in {200, 404, 500}

\* C25: in every 200 response balance_satoshis, confirmed_satoshis and
\* total_received_satoshis all equal the scanned balance, transaction_count
\* equals the scanned reward count, unconfirmed_satoshis and
\* total_sent_satoshis are 0, and the address field is the address that
\* do_GET took from the request path.
C25_BodyReportsScan ==
    (response # None /\ response.status = 200) =>
        /\ response.body.balance_satoshis = balance
        /\ response.body.confirmed_satoshis = balance
        /\ response.body.total_received_satoshis = balance
        /\ response.body.transaction_count = mining_rewards
        /\ response.body.unconfirmed_satoshis = 0
        /\ response.body.total_sent_satoshis = 0
        /\ response.body.address = address
        /\ response.body.address = path[4]

\* a 200 response after a scan that found rewards: two rewards of 3 each
C25_Witness ==
    /\ response # None
    /\ response.status = 200
    /\ balance = 6
    /\ mining_rewards = 2

\* C26 at the facade: a failed height query is answered with 500 and no
\* block was asked for
C26_Facade500 ==
    (lastOutcome = "status_error" /\ pc = "closed") =>
        /\ response # None
        /\ response.status = 500
        /\ requested = <<>>

\* the facade answered 500 after the height query failed
C26_Facade500Witness ==
    /\ lastOutcome = "status_error"
    /\ response # None
    /\ response.status = 500

\* a path of the form /api/v1/address/<address>/balance
BalancePathForm(parts) ==
    /\ Len(parts) = 6
    /\ SubSeq(parts, 1, 4) = <<"", "api", "v1", "address">>
    /\ parts[5] # ""
    /\ parts[6] = "balance"

\* C21: a GET gets one response; a path of the form
\* /api/v1/address/<address>/balance is answered with 200 or, when the
\* query fails, with 500 and an error text; every other path is answered
\* with 404 "Not Found" and no chain scan is started for it.
C21_RoutingByPath ==
    /\ [](BalancePathForm(path) =>
             (response # None => response.status \in {200, 500}))
    /\ [](~BalancePathForm(path) =>
             /\ pc \in {"idle", "closed"}
             /\ result.kind = "none"
             /\ requested = <<>>
             /\ response # None =>
                   (response.status = 404 /\ response.body = "Not Found"))
    /\ [][response # None => response' = response]_vars

\* the documented path was answered with 404
C21_DocumentedPathNotFound ==
    /\ path = <<"", "api", "v1", "address", "S1", "balance">>
    /\ response # None
    /\ response.status = 404

\* a path without an address segment was answered with 200 after a scan
\* for the address "address"
C21_AddresslessPathScanned ==
    /\ path = <<"", "api", "v1", "address", "balance", "S1">>
    /\ response # None
    /\ response.status = 200
    /\ response.body.address = "address"
    /\ Len(requested) >= 1

(***************************************************************************)
(* The send flow: ShadowyWASM and the `wallet send` command.               *)
(***************************************************************************)
\* estimated_fee = 100000
EstimatedFee == 100000

\* truthiness of the --token option
Truthy(tok) == tok # "None" /\ tok # ""

\* int(amount * 100000000): truncation toward zero
TruncSatoshis(a) == IF a.floor < 0 /\ a.frac = 1 THEN a.floor + 1 ELSE a.floor

\* int(amount): truncation toward zero of the display units
TruncUnits(a) ==
    LET t == TruncSatoshis(a)
    IN  IF t >= 0 THEN t \div SatoshisPerShadow ELSE -((-t) \div SatoshisPerShadow)

\* amount_satoshis = int(amount * 100000000) if not token_id else int(amount)
AmountSatoshis(a, tok) == IF ~Truthy(tok) THEN TruncSatoshis(a) ELSE TruncUnits(a)

\* amount <= 0, which is false of nan and of inf
NotPositive(a) == a.finite /\ (a.floor < 0 \/ (a.floor = 0 /\ a.frac = 0))

\* not to_address.startswith('S') or len(to_address) != 51
BadRecipient(a) == a.first # "S" \/ a.len # 51

\* _create_mock_utxos(address)
MockUtxos(a) ==
    <<[txid |-> "a1b2", vout |-> 0, value |-> 1000000000, address |-> a, confirmations |-> 10],
      [txid |-> "b2c3", vout |-> 1, value |-> 500000000, address |-> a, confirmations |-> 20]>>

\* get_address_utxos after the bridge replied: the utxos of the result
UtxosOfReply(reply, a) ==
    IF reply.kind = "error" THEN MockUtxos(a)
    ELSE LET got == IF "utxos" \in DOMAIN reply THEN reply.utxos ELSE <<>>
         IN  IF Len(got) = 0 THEN MockUtxos(a) ELSE got

\* what the real candidate source gave: an error, no candidates, or some
LookupOf(reply) ==
    IF reply.kind = "error" THEN "error"
    ELSE IF "utxos" \notin DOMAIN reply \/ Len(reply.utxos) = 0 THEN "empty"
    ELSE "real"

\* a selection that forgets to sort
NoSort(us) == us

\* utxos.sort(key=lambda x: x.get("value", 0), reverse=True): stable
RECURSIVE InsertByValueDesc(_, _)
InsertByValueDesc(sorted, u) ==
    IF sorted = <<>> THEN <<u>>
    ELSE IF Get(Head(sorted), "value", 0) >= Get(u, "value", 0)
         THEN <<Head(sorted)>> \o InsertByValueDesc(Tail(sorted), u)
         ELSE <<u>> \o sorted

RECURSIVE SortFrom(_, _)
SortFrom(us, sorted) ==
    IF us = <<>> THEN sorted
    ELSE SortFrom(Tail(us), InsertByValueDesc(sorted, Head(us)))

SortByValueDesc(us) == SortFrom(us, <<>>)

\* a selection that forgets the fee
TotalNeededNoFee(amt, fee) == amt

\* total_needed = amount_satoshis + estimated_fee
TotalNeeded(amt, fee) == amt + fee

\* for utxo in utxos: append, add, break once total_selected >= total_needed
RECURSIVE SelectLoop(_, _, _)
SelectLoop(us, needed, acc) ==
    IF us = <<>> THEN acc
    ELSE LET next == [selected_utxos |-> Append(acc.selected_utxos, Head(us)),
                      total_selected |-> acc.total_selected + Get(Head(us), "value", 0)]
         IN  IF next.total_selected >= needed THEN next
             ELSE SelectLoop(Tail(us), needed, next)

\* a funds check that forgets the fee
InsufficientFundsAmountOnly(total, needed) == total < needed - EstimatedFee

\* if total_selected < total_needed
InsufficientFunds(total, needed) == total < needed

\* an error text with the two numbers the wrong way round
InsufficientFundsErrorSwapped(needed, have) ==
    [error |-> "Insufficient funds", need |-> have, have |-> needed]

\* {"error": f"Insufficient funds: need {total_needed} satoshis, have
\* {total_selected} satoshis"}: the kind of error and the two numbers of
\* its text
InsufficientFundsError(needed, have) ==
    [error |-> "Insufficient funds", need |-> needed, have |-> have]

\* an assembler that lists the inputs last selected first
InputsOfReversed(sel) ==
    [i \in 1..Len(sel) |->
        [txid |-> Get(sel[Len(sel) + 1 - i], "txid", ""),
         vout |-> Get(sel[Len(sel) + 1 - i], "vout", 0),
         script_sig |-> ""]]

\* inputs.append({"txid": ..., "vout": ..., "script_sig": "", "sequence": 0xffffffff})
InputsOf(sel) ==
    [i \in 1..Len(sel) |-> [txid |-> Get(sel[i], "txid", ""), vout |-> Get(sel[i], "vout", 0),
                            script_sig |-> ""]]

\* an assembler that emits the change output also when the change is zero
ChangeOutputsAlways(change, from) == <<[value |-> change, address |-> from]>>

\* if change > 0: outputs.append({"value": change, ..., "address": from_address})
ChangeOutputs(change, from) ==
    IF change > 0 THEN <<[value |-> change, address |-> from]>> ELSE <<>>

\* an assembler that appends the transfer operation to every send
TokenOpsAlways(tok, from, to, a) ==
    <<[type |-> 1, token_id |-> tok, from |-> from, to |-> to, amount |-> TruncUnits(a)]>>

\* token_ops: one transfer operation when a token id was given
TokenOps(tok, from, to, a) ==
    IF Truthy(tok)
    THEN <<[type |-> 1, token_id |-> tok, from |-> from, to |-> to, amount |-> TruncUnits(a)]>>
    ELSE <<>>

\* transaction_data, without its timestamp
TransactionData(ins, outs, ops) ==
    IF ops # <<>>
    THEN [version |-> 1, inputs |-> ins, outputs |-> outs, locktime |-> 0, token_ops |-> ops]
    ELSE [version |-> 1, inputs |-> ins, outputs |-> outs, locktime |-> 0]

\* no scan runs
ScanQuiet ==
    /\ impl = "api"
    /\ address = "S1"
    /\ pc = "start"
    /\ latest_height = 0
    /\ height = 1
    /\ nTxs = 0
    /\ idx = 1
    /\ tx_b64 = Garbage
    /\ balance = 0
    /\ mining_rewards = 0
    /\ result = [kind |-> "none"]
    /\ requested = <<>>
    /\ lastOutcome = "none"
    /\ failures = 0
    /\ allOk = TRUE
    /\ truthBalance = 0
    /\ truthCount = 0
    /\ blockStartBalance = 0
    /\ blockStartRewards = 0
    /\ blockValidSum = 0
    /\ blockCorrupt = FALSE
    /\ lastReply = "none"

\* the command line of `wallet send`
SendInit ==
    /\ ScanQuiet
    /\ RepeatQuiet
    /\ HttpQuiet
    /\ ValidateQuiet
    /\ current_client = None
    /\ current_wallet = None
    /\ sendPc = "cli"
    /\ to_address \in ToAddresses
    /\ amount \in Amounts
    /\ token_id \in TokenIds
    /\ utxos = <<>>
    /\ amount_satoshis = 0
    /\ total_needed = 0
    /\ selected_utxos = <<>>
    /\ total_selected = 0
    /\ transaction_data = None
    /\ signed_tx = None
    /\ send_result = None
    /\ fetched = <<>>
    /\ lookup = "none"
    /\ calls = <<>>

\* send: wasm.create_client(node), exit on failure
CliCreateClient ==
    /\ sendPc = "cli"
    /\ current_client' = [url |-> "node"]
    /\ \E created \in BridgeReplies, tested \in BridgeReplies :
          IF created = "error"
          THEN /\ calls' = Append(calls, "create_client")
               /\ sendPc' = "exit"
          ELSE /\ calls' = calls \o <<"create_client", "test_connection">>
               /\ sendPc' = IF tested = "ok" THEN "cli_wallet" ELSE "exit"
    /\ UNCHANGED <<current_wallet, to_address, amount, token_id, utxos,
                   amount_satoshis, total_needed, selected_utxos, total_selected,
                   transaction_data, signed_tx, send_result, fetched, lookup>>
    /\ UNCHANGED outsideSend

\* send: wasm.load_wallet(wallet), exit on failure
CliLoadWallet ==
    /\ sendPc = "cli_wallet"
    /\ calls' = Append(calls, "load_wallet")
    /\ \E loaded \in BridgeReplies :
          IF loaded = "error"
          THEN sendPc' = "exit" /\ UNCHANGED current_wallet
          ELSE /\ sendPc' = "cli_validate"
               /\ current_wallet' = [name |-> "w", address |-> WalletAddress]
    /\ UNCHANGED <<current_client, to_address, amount, token_id, utxos,
                   amount_satoshis, total_needed, selected_utxos, total_selected,
                   transaction_data, signed_tx, send_result, fetched, lookup>>
    /\ UNCHANGED outsideSend

\* send: the format check of the recipient, the sign check of the amount
\* and the confirmation prompt
CliValidate ==
    /\ sendPc = "cli_validate"
    /\ \E confirmed \in BOOLEAN :
          sendPc' = IF BadRecipient(to_address) \/ NotPositive(amount) \/ ~confirmed
                    THEN "exit" ELSE "Idle"
    /\ UNCHANGED <<current_client, current_wallet, to_address, amount, token_id,
                   utxos, amount_satoshis, total_needed, selected_utxos,
                   total_selected, transaction_data, signed_tx, send_result,
                   fetched, lookup, calls>>
    /\ UNCHANGED outsideSend

\* send_transaction up to `Found n spendable UTXOs`, get_address_utxos included
FetchCandidates ==
    /\ sendPc = "Idle"
    /\ IF current_client = None
       THEN /\ sendPc' = "Error"
            /\ send_result' = [error |-> "No client configured"]
            /\ UNCHANGED <<utxos, fetched, lookup, calls>>
       ELSE IF current_wallet = None
       THEN /\ sendPc' = "Error"
            /\ send_result' = [error |-> "No wallet loaded"]
            /\ UNCHANGED <<utxos, fetched, lookup, calls>>
       ELSE \E reply \in UtxoReplies :
               LET got == UtxosOfReply(reply, current_wallet.address)
               IN  /\ calls' = Append(calls, "get_utxos")
                   /\ fetched' = got
                   /\ lookup' = LookupOf(reply)
                   /\ utxos' = got
                   /\ IF got = <<>>
                      THEN /\ sendPc' = "Error"
                           /\ send_result' = [error |-> "No spendable UTXOs found"]
                      ELSE /\ sendPc' = "CandidatesFetched"
                           /\ UNCHANGED send_result
    /\ UNCHANGED <<current_client, current_wallet, to_address, amount, token_id,
                   amount_satoshis, total_needed, selected_utxos, total_selected,
                   transaction_data, signed_tx>>
    /\ UNCHANGED outsideSend

\* send_transaction: amount conversion (int() raises on nan and inf, which
\* the outer except turns into an error), sort, greedy selection, funds check
SelectInputs ==
    /\ sendPc = "CandidatesFetched"
    /\ IF ~amount.finite
       THEN /\ sendPc' = "Error"
            /\ send_result' = [error |-> "Transaction failed"]
            /\ UNCHANGED <<amount_satoshis, total_needed, utxos, selected_utxos,
                           total_selected>>
       ELSE LET amt == AmountSatoshis(amount, token_id)
                needed == TotalNeeded(amt, EstimatedFee)
                sorted == SortByValueDesc(utxos)
                sel == SelectLoop(sorted, needed,
                                  [selected_utxos |-> <<>>, total_selected |-> 0])
            IN  /\ amount_satoshis' = amt
                /\ total_needed' = needed
                /\ utxos' = sorted
                /\ selected_utxos' = sel.selected_utxos
                /\ total_selected' = sel.total_selected
                /\ IF InsufficientFunds(sel.total_selected, needed)
                   THEN /\ sendPc' = "Error"
                        /\ send_result' = InsufficientFundsError(needed, sel.total_selected)
                   ELSE /\ sendPc' = "InputsSelected"
                        /\ UNCHANGED send_result
    /\ UNCHANGED <<current_client, current_wallet, to_address, amount, token_id,
                   transaction_data, signed_tx, fetched, lookup, calls>>
    /\ UNCHANGED outsideSend

\* send_transaction: inputs, outputs, change, token operations, record
Assemble ==
    /\ sendPc = "InputsSelected"
    /\ LET from_address == current_wallet.address
           change == total_selected - amount_satoshis - EstimatedFee
           outputs == <<[value |-> amount_satoshis, address |-> to_address]>>
                         \o ChangeOutputs(change, from_address)
       IN  transaction_data' =
               TransactionData(InputsOf(selected_utxos), outputs,
                               TokenOps(token_id, from_address, to_address, amount))
    /\ sendPc' = "Assembled"
    /\ UNCHANGED <<current_client, current_wallet, to_address, amount, token_id,
                   utxos, amount_satoshis, total_needed, selected_utxos,
                   total_selected, signed_tx, send_result, fetched, lookup, calls>>
    /\ UNCHANGED outsideSend

\* a send that goes on whatever the signer returned
SignFailedNever(signed) == FALSE

\* if "error" in signed_tx
SignFailed(signed) == "error" \in DOMAIN signed

\* send_transaction: sign_transaction(transaction_data)
Sign ==
    /\ sendPc = "Assembled"
    /\ calls' = Append(calls, "sign_transaction")
    /\ \E reply \in SignReplies, id \in TxIds :
          CASE reply = "error" ->
                 \* sign_transaction returns {"error": result["error"]}
                 LET signed == [error |-> "sign"]
                 IN  /\ signed_tx' = signed
                     /\ IF SignFailed(signed)
                        THEN /\ send_result' = signed
                             /\ sendPc' = "Error"
                        ELSE /\ sendPc' = "Signed"
                             /\ UNCHANGED send_result
            [] reply = "malformed" ->
                 \* result["txid"] raises KeyError, caught by the outer except
                 /\ send_result' = [error |-> "Transaction failed"]
                 /\ sendPc' = "Error"
                 /\ UNCHANGED signed_tx
            [] OTHER ->
                 /\ signed_tx' = [txid |-> id, signature |-> "sig", raw_tx |-> "raw",
                                  from_address |-> current_wallet.address]
                 /\ sendPc' = "Signed"
                 /\ UNCHANGED send_result
    /\ UNCHANGED <<current_client, current_wallet, to_address, amount, token_id,
                   utxos, amount_satoshis, total_needed, selected_utxos,
                   total_selected, transaction_data, fetched, lookup>>
    /\ UNCHANGED outsideSend

\* a failure result that drops the transaction id
BroadcastFailedResultNoTxid(signed, from, to) ==
    [success |-> FALSE, from |-> from, to |-> to, error |-> "WASM broadcast error"]

\* the result of send_transaction when the broadcast reply holds an error
BroadcastFailedResult(signed, from, to) ==
    [success |-> FALSE, txid |-> signed.txid, from |-> from, to |-> to,
     error |-> "WASM broadcast error"]

\* send_transaction: _call_wasm('broadcast_transaction', signed_tx)
Broadcast ==
    /\ sendPc = "Signed"
    /\ calls' = Append(calls, "broadcast_transaction")
    /\ \E reply \in BridgeReplies :
          LET change == total_selected - amount_satoshis - EstimatedFee
          IN  IF reply = "ok"
              THEN /\ sendPc' = "BroadcastSuccess"
                   /\ send_result' = [success |-> TRUE, txid |-> signed_tx.txid,
                                      from |-> current_wallet.address, to |-> to_address,
                                      fee |-> EstimatedFee,
                                      change |-> IF change > 0 THEN change ELSE 0]
              ELSE /\ sendPc' = "BroadcastFailed"
                   /\ send_result' = BroadcastFailedResult(signed_tx, current_wallet.address,
                                                           to_address)
    /\ UNCHANGED <<current_client, current_wallet, to_address, amount, token_id,
                   utxos, amount_satoshis, total_needed, selected_utxos,
                   total_selected, transaction_data, signed_tx, fetched, lookup>>
    /\ UNCHANGED outsideSend

SendNext ==
    \/ CliCreateClient \/ CliLoadWallet \/ CliValidate
    \/ FetchCandidates \/ SelectInputs \/ Assemble \/ Sign \/ Broadcast

SendSpec == SendInit /\ [][SendNext]_vars

(***************************************************************************)
(* The methods of one ShadowyWASM object, called in any order.  sendPc     *)
(* tells where the caller is: at the new object, back from a method (its   *)
(* return value in send_result), or inside send_transaction.               *)
(***************************************************************************)
\* the bridge endpoint e was called
Called(e) == \E i \in 1..Len(calls) : calls[i] = e

ObjectIdle ==
    {"object", "ret_create_client", "ret_load_wallet", "ret_get_balance",
     "ret_get_address_utxos"}

\* arguments of send_transaction: a recipient of the accepted format and
\* one of another, an amount below 0, 0 and above 0
ObjectToAddresses == {Addr("S", 51, "recipient"), Addr("T", 50, "recipient")}
ObjectAmounts == {Amount(-100000, 0), Amount(0, 0), Amount(100000, 0)}

\* replies of the bridge to a get_utxos of get_address_utxos called alone
ObjectUtxoReplies ==
    {[kind |-> "error"],
     [kind |-> "array", utxos |-> <<BridgeUtxo(1, 300000)>>]}

\* __init__: current_client = None; current_wallet is not set
ObjectInit ==
    /\ ScanQuiet
    /\ RepeatQuiet
    /\ HttpQuiet
    /\ ValidateQuiet
    /\ current_client = None
    /\ current_wallet = None
    /\ sendPc = "object"
    /\ to_address \in ObjectToAddresses
    /\ amount \in ObjectAmounts
    /\ token_id = "None"
    /\ utxos = <<>>
    /\ amount_satoshis = 0
    /\ total_needed = 0
    /\ selected_utxos = <<>>
    /\ total_selected = 0
    /\ transaction_data = None
    /\ signed_tx = None
    /\ send_result = None
    /\ fetched = <<>>
    /\ lookup = "none"
    /\ calls = <<>>

\* a create_client that keeps the client only when the bridge took it
ClientAfterCreateOnSuccess(url, created) ==
    IF created = "ok" THEN [url |-> url] ELSE None

\* self.current_client = {'url': url, ...}, before the bridge is called
ClientAfterCreate(url, created) == [url |-> url]

\* create_client(url)
CallCreateClient ==
    /\ sendPc \in ObjectIdle
    /\ ~Called("create_client")
    /\ sendPc' = "ret_create_client"
    /\ \E created \in BridgeReplies, tested \in BridgeReplies :
          /\ current_client' = ClientAfterCreate("node", created)
          /\ IF created = "error"
             THEN /\ calls' = Append(calls, "create_client")
                  /\ send_result' = [success |-> FALSE, error |-> "bridge"]
             ELSE /\ calls' = calls \o <<"create_client", "test_connection">>
                  /\ send_result' = IF tested = "ok"
                                    THEN [success |-> TRUE]
                                    ELSE [success |-> FALSE,
                                          error |-> "WASM connection test failed"]
    /\ UNCHANGED <<current_wallet, to_address, amount, token_id, utxos,
                   amount_satoshis, total_needed, selected_utxos, total_selected,
                   transaction_data, signed_tx, fetched, lookup>>
    /\ UNCHANGED outsideSend

\* load_wallet(name)
CallLoadWallet ==
    /\ sendPc \in ObjectIdle
    /\ ~Called("load_wallet")
    /\ sendPc' = "ret_load_wallet"
    /\ calls' = Append(calls, "load_wallet")
    /\ \E loaded \in BridgeReplies :
          IF loaded = "error"
          THEN /\ send_result' = [error |-> "bridge"]
               /\ UNCHANGED current_wallet
          ELSE /\ send_result' = [name |-> "w", address |-> WalletAddress]
               /\ current_wallet' = [name |-> "w", address |-> WalletAddress]
    /\ UNCHANGED <<current_client, to_address, amount, token_id, utxos,
                   amount_satoshis, total_needed, selected_utxos, total_selected,
                   transaction_data, signed_tx, fetched, lookup>>
    /\ UNCHANGED outsideSend

\* get_balance(address)
CallGetBalance ==
    /\ sendPc \in ObjectIdle
    /\ ~Called("get_balance")
    /\ sendPc' = "ret_get_balance"
    /\ IF current_client = None
       THEN /\ send_result' = [error |-> "No client configured"]
            /\ UNCHANGED calls
       ELSE /\ calls' = Append(calls, "get_balance")
            /\ \E reply \in BridgeReplies :
                  send_result' = IF reply = "ok" THEN [balance |-> 0]
                                 ELSE [error |-> "bridge"]
    /\ UNCHANGED <<current_client, current_wallet, to_address, amount, token_id,
                   utxos, amount_satoshis, total_needed, selected_utxos,
                   total_selected, transaction_data, signed_tx, fetched, lookup>>
    /\ UNCHANGED outsideSend

\* get_address_utxos(address), called by itself
CallGetAddressUtxos ==
    /\ sendPc \in ObjectIdle
    /\ ~Called("get_utxos")
    /\ sendPc' = "ret_get_address_utxos"
    /\ IF current_client = None
       THEN /\ send_result' = [error |-> "No client configured"]
            /\ UNCHANGED calls
       ELSE /\ calls' = Append(calls, "get_utxos")
            /\ \E reply \in ObjectUtxoReplies :
                  LET got == UtxosOfReply(reply, WalletAddress)
                  IN  send_result' = [address |-> WalletAddress, utxos |-> got,
                                      count |-> Len(got)]
    /\ UNCHANGED <<current_client, current_wallet, to_address, amount, token_id,
                   utxos, amount_satoshis, total_needed, selected_utxos,
                   total_selected, transaction_data, signed_tx, fetched, lookup>>
    /\ UNCHANGED outsideSend

\* send_transaction(to_address, amount, token_id) is entered
CallSendTransaction ==
    /\ sendPc \in ObjectIdle
    /\ sendPc' = "Idle"
    /\ send_result' = None
    /\ UNCHANGED <<current_client, current_wallet, to_address, amount, token_id,
                   utxos, amount_satoshis, total_needed, selected_utxos,
                   total_selected, transaction_data, signed_tx, fetched, lookup,
                   calls>>
    /\ UNCHANGED outsideSend

ObjectNext ==
    \/ CallCreateClient \/ CallLoadWallet \/ CallGetBalance
    \/ CallGetAddressUtxos \/ CallSendTransaction
    \/ FetchCandidates \/ SelectInputs \/ Assemble \/ Sign \/ Broadcast

ObjectSpec == ObjectInit /\ [][ObjectNext]_vars

(***************************************************************************)
(* Claims about coin selection and assembly.                               *)
(***************************************************************************)
RECURSIVE SumValues(_)
SumValues(us) ==
    IF us = <<>> THEN 0
    ELSE (IF "value" \in DOMAIN Head(us) THEN Head(us).value ELSE 0) + SumValues(Tail(us))

ValueAt(us, i) == IF "value" \in DOMAIN us[i] THEN us[i].value ELSE 0

\* selection succeeded: send_transaction went past the funds check
PastSelection ==
    \/ sendPc \in {"InputsSelected", "Assembled", "Signed",
                   "BroadcastSuccess", "BroadcastFailed"}
    \/ sendPc = "Error" /\ transaction_data # None

\* C8: once send_transaction is past the funds check, the values of the
\* selected candidates sum to at least the amount in smallest units plus the
\* fee of 100000, whatever the number of inputs.
C8_SelectedCoversAmountAndFee ==
    PastSelection => SumValues(selected_utxos) >= amount_satoshis + 100000

\* two inputs were needed and the fee is still 100000
C8_Witness ==
    /\ PastSelection
    /\ Len(selected_utxos) = 2
    /\ SumValues(selected_utxos) = amount_satoshis + 100000
    /\ amount_satoshis > 0

\* C9: the selected candidates are the shortest prefix of the candidates
\* sorted by value descending whose sum reaches amount + fee: the sorted
\* list is a reordering of the fetched candidates, every candidate is at
\* least as large as all that follow it, the selection is a prefix of it,
\* its sum reaches amount + fee and the sum without its last element does
\* not.
C9_ShortestDescendingPrefix ==
    PastSelection =>
        LET n == Len(selected_utxos)
        IN  /\ n >= 1 /\ n <= Len(utxos)
            /\ Len(utxos) = Len(fetched)
            /\ {utxos[i] : i \in 1..Len(utxos)} = {fetched[i] : i \in 1..Len(fetched)}
            /\ \A i \in 1..Len(utxos) : \A j \in 1..Len(utxos) :
                  i < j => ValueAt(utxos, i) >= ValueAt(utxos, j)
            /\ \A i \in 1..n : selected_utxos[i] = utxos[i]
            /\ SumValues(selected_utxos) >= amount_satoshis + 100000
            /\ SumValues(SubSeq(selected_utxos, 1, n - 1)) < amount_satoshis + 100000

\* the bridge returned three candidates out of order, two were selected
C9_Witness ==
    /\ PastSelection
    /\ Len(utxos) = 3
    /\ utxos # fetched
    /\ Len(selected_utxos) = 2
    /\ ValueAt(utxos, 2) > ValueAt(utxos, 3)

\* the example of the specification: candidates of 10 and 5 units, amount
\* 12, both selected, the 10 first
C9_Example ==
    /\ PastSelection
    /\ amount_satoshis = 1200000000
    /\ Len(selected_utxos) = 2
    /\ selected_utxos[1].value = 1000000000
    /\ selected_utxos[2].value = 500000000

\* C10: an assembled record has a change output exactly when
\* sum(selected) - amount - fee > 0; it is then the second output, pays the
\* sender and carries exactly that value; the output values plus the fee
\* equal the selected input values; with zero change there is one output.
C10_ChangeOutput ==
    transaction_data # None =>
        LET outs == transaction_data.outputs
            change == SumValues(selected_utxos) - amount_satoshis - 100000
        IN  /\ Len(outs) \in {1, 2}
            /\ (Len(outs) = 2) <=> (change > 0)
            /\ Len(outs) = 2 => /\ outs[2].address = current_wallet.address
                                /\ outs[2].value = change
            /\ SumSeq([i \in 1..Len(outs) |-> outs[i].value]) + 100000
                  = SumValues(selected_utxos)
            /\ Len(transaction_data.inputs) = Len(selected_utxos)

\* a record with two inputs and a change output
C10_Witness ==
    /\ transaction_data # None
    /\ Len(transaction_data.outputs) = 2
    /\ Len(transaction_data.inputs) = 2
    /\ transaction_data.outputs[2].value = 100000

\* a record whose inputs cover amount + fee exactly
C10_NoChange ==
    /\ transaction_data # None
    /\ Len(transaction_data.outputs) = 1
    /\ SumValues(selected_utxos) = amount_satoshis + 100000

(***************************************************************************)
(* The `validate` command and ShadowyWASM.validate_address.                *)
(***************************************************************************)
\* address arguments of the command line: the empty string, and strings of
\* every length up to MaxAddrLen that start with 'S' or with another letter
ValidateInputs ==
    {Addr("", 0, "arg")}
        \cup {Addr(c, n, "arg") : c \in {"S", "T"}, n \in 1..MaxAddrLen}

\* a validation that looks at the first character only
validate_address_prefix_only(a) ==
    IF a.first = "S"
    THEN [valid |-> TRUE, address |-> a]
    ELSE [valid |-> FALSE, error |-> "Invalid address format"]

\* if len(address) == 51 and address.startswith('S')
validate_address(a) ==
    IF a.len = 51 /\ a.first = "S"
    THEN [valid |-> TRUE, address |-> a]
    ELSE [valid |-> FALSE, error |-> "Invalid address format"]

\* the command line of `validate`
ValidateInit ==
    /\ ScanQuiet
    /\ SendQuiet
    /\ RepeatQuiet
    /\ HttpQuiet
    /\ cli_address \in ValidateInputs
    /\ validatePc = "cli"
    /\ validate_result = None

\* validate: wasm.create_client(node), exit on failure
ValidateCreateClient ==
    /\ validatePc = "cli"
    /\ current_client' = [url |-> "node"]
    /\ \E created \in BridgeReplies, tested \in BridgeReplies :
          IF created = "error"
          THEN /\ calls' = Append(calls, "create_client")
               /\ validatePc' = "exit"
          ELSE /\ calls' = calls \o <<"create_client", "test_connection">>
               /\ validatePc' = IF tested = "ok" THEN "validate" ELSE "exit"
    /\ UNCHANGED <<current_wallet, sendPc, to_address, amount, token_id, utxos,
                   amount_satoshis, total_needed, selected_utxos, total_selected,
                   transaction_data, signed_tx, send_result, fetched, lookup>>
    /\ UNCHANGED <<cli_address, validate_result>>
    /\ UNCHANGED <<scanVars, repeatVars, httpVars>>

\* validate: wasm.validate_address(address); a result with an error key
\* (every invalid verdict has one) exits with status 1
ValidateAddress ==
    /\ validatePc = "validate"
    /\ validate_result' = validate_address(cli_address)
    /\ validatePc' = IF "error" \in DOMAIN validate_result' THEN "exit" ELSE "done"
    /\ UNCHANGED cli_address
    /\ UNCHANGED <<scanVars, sendVars, repeatVars, httpVars>>

ValidateNext == ValidateCreateClient \/ ValidateAddress

ValidateSpec == ValidateInit /\ [][ValidateNext]_vars

C16_Valid ==
    /\ validate_result # None
    /\ validate_result.valid
    /\ cli_address.len = 51

(***************************************************************************)
(* Claims about the send flow.                                             *)
(***************************************************************************)
\* send_transaction went through its selection with an integer amount
SelectionRan == total_needed # 0

\* C11: when the values of all candidates sum to less than the amount in
\* smallest units plus the fee, send_transaction returns the
\* insufficient-funds error, no record is assembled, and neither the signer
\* nor the broadcaster is called in that send.
C11_InsufficientFundsNoAssembly ==
    (SelectionRan /\ SumValues(fetched) < amount_satoshis + 100000) =>
        /\ sendPc = "Error"
        /\ send_result # None
        /\ send_result.error = "Insufficient funds"
        /\ transaction_data = None
        /\ signed_tx = None
        /\ ~Called("sign_transaction")
        /\ ~Called("broadcast_transaction")

\* three candidates, all of them tried, short of amount + fee by less than
\* the fee
C11_Witness ==
    /\ sendPc = "Error"
    /\ send_result # None /\ send_result.error = "Insufficient funds"
    /\ Len(fetched) = 3
    /\ Len(selected_utxos) = 3
    /\ SumValues(fetched) >= amount_satoshis
    /\ SumValues(fetched) < amount_satoshis + 100000

\* C12: when the real candidate source fails or returns no candidates, the
\* lookup gives send_transaction no candidates (an explicit empty or error
\* result), so nothing is signed or broadcast in that send.
C12_NoFixtureSubstitution ==
    lookup \in {"error", "empty"} =>
        /\ fetched = <<>>
        /\ ~Called("sign_transaction")
        /\ ~Called("broadcast_transaction")

\* the bridge failed to look up the candidates and a record spending the
\* fixture candidate was broadcast
C12_FixtureBroadcast ==
    /\ lookup = "error"
    /\ sendPc = "BroadcastSuccess"
    /\ transaction_data.inputs[1].txid = "a1b2"

\* C13: the record handed to the signer has a token_ops entry exactly when
\* a token id was given for the send (--token with a non-empty value); a
\* native send has no token_ops key, and a token send has exactly one
\* operation, of type transfer (1), carrying the token id, the sender, the
\* recipient and the integer amount.
C13_TokenOpsOnlyForTokenSends ==
    transaction_data # None =>
        /\ ("token_ops" \in DOMAIN transaction_data) <=> (token_id \notin {"None", ""})
        /\ "token_ops" \in DOMAIN transaction_data =>
              /\ Len(transaction_data.token_ops) = 1
              /\ transaction_data.token_ops[1].type = 1
              /\ transaction_data.token_ops[1].token_id = token_id
              /\ transaction_data.token_ops[1].from = current_wallet.address
              /\ transaction_data.token_ops[1].to = to_address
              /\ transaction_data.token_ops[1].amount = amount_satoshis

\* a token send of twelve units whose record reached the signer
C13_Witness ==
    /\ transaction_data # None
    /\ Called("sign_transaction")
    /\ token_id = "TOKEN1"
    /\ "token_ops" \in DOMAIN transaction_data
    /\ transaction_data.token_ops[1].amount = 12
    /\ to_address # current_wallet.address

\* a native send whose record reached the signer
C13_Native ==
    /\ transaction_data # None
    /\ Called("sign_transaction")
    /\ token_id = ""
    /\ "token_ops" \notin DOMAIN transaction_data

\* the steps of the send flow, in order
FlowOrder ==
    <<"Idle", "CandidatesFetched", "InputsSelected", "Assembled", "Signed">>

\* moving from one step of the flow to the next, or from the last to one of
\* the two outcomes of the broadcast
FlowForward(from, to) ==
    \/ \E i \in 1..(Len(FlowOrder) - 1) : from = FlowOrder[i] /\ to = FlowOrder[i + 1]
    \/ from = "Signed" /\ to \in {"BroadcastSuccess", "BroadcastFailed"}

\* leaving the flow with an error before the broadcast
FlowFails(from, to) ==
    /\ \E i \in 1..Len(FlowOrder) : from = FlowOrder[i]
    /\ to = "Error"

InFlow(s) ==
    s \in {"Idle", "CandidatesFetched", "InputsSelected", "Assembled", "Signed",
           "BroadcastSuccess", "BroadcastFailed", "Error"}

\* the flow only moves forward, one step at a time, or ends with an error;
\* nothing follows Success, Failed or an error; every step calls the bridge
\* at most once
C14_StepsForward ==
    [][/\ InFlow(sendPc) => (FlowForward(sendPc, sendPc') \/ FlowFails(sendPc, sendPc'))
       /\ InFlow(sendPc) => Len(calls') <= Len(calls) + 1
       /\ \A i \in 1..Len(calls') : \A j \in 1..Len(calls') :
             i # j => calls'[i] # calls'[j]]_vars

\* C14: the send flow only moves forward through Idle, CandidatesFetched,
\* InputsSelected, Assembled, Signed and Broadcast Success or Failed, one
\* step at a time; a step whose bridge call fails ends the flow with that
\* step's error; no bridge endpoint is called a second time; nothing follows
\* Success or Failed.
C14_FlowForwardFailuresEnd ==
    [][/\ InFlow(sendPc) => (FlowForward(sendPc, sendPc') \/ FlowFails(sendPc, sendPc'))
       /\ InFlow(sendPc) => Len(calls') <= Len(calls) + 1
       /\ \A i \in 1..Len(calls') : \A j \in 1..Len(calls') :
             i # j => calls'[i] # calls'[j]
       /\ (sendPc = "Idle" /\ lookup' = "error") =>
             (sendPc' = "Error" /\ send_result' # None)
       /\ (sendPc = "Assembled" /\ "error" \in DOMAIN signed_tx') =>
             (sendPc' = "Error" /\ send_result' = signed_tx')
       /\ (sendPc = "Signed" /\ "error" \in DOMAIN send_result') =>
             sendPc' = "BroadcastFailed"]_vars

\* the number of calls of the bridge endpoint e
RECURSIVE CountCalls(_, _)
CountCalls(cs, e) ==
    IF cs = <<>> THEN 0
    ELSE (IF Head(cs) = e THEN 1 ELSE 0) + CountCalls(Tail(cs), e)

CannotCover == SelectionRan /\ SumValues(fetched) < amount_satoshis + 100000

\* C19 as stated: when the candidates cannot cover amount + fee, the
\* insufficient-funds error carries the shortfall, (amount + fee) minus the
\* sum of all candidates, a strictly positive value.
C19_ErrorCarriesShortfall ==
    CannotCover =>
        /\ send_result # None
        /\ send_result.error = "Insufficient funds"
        /\ "shortfall" \in DOMAIN send_result
        /\ send_result.shortfall = (amount_satoshis + 100000) - SumValues(fetched)
        /\ send_result.shortfall > 0

\* C19 as amended: when the candidates cannot cover amount + fee, the
\* insufficient-funds error carries the amount needed, amount + fee, and
\* the amount available, the sum of all candidates; their difference, the
\* shortfall, is strictly positive.
C19_ErrorCarriesNeedAndHave ==
    CannotCover =>
        /\ send_result # None
        /\ send_result.error = "Insufficient funds"
        /\ send_result.need = amount_satoshis + 100000
        /\ send_result.have = SumValues(fetched)
        /\ send_result.need - send_result.have > 0

\* two candidates worth 300000 together against 400000 needed
C19_Witness ==
    /\ CannotCover
    /\ Len(fetched) = 2
    /\ send_result.need = 400000
    /\ send_result.have = 300000
    /\ ValueAt(fetched, 1) = 100000

\* C24: the assembled record has one input per selected candidate, in
\* selection order, each carrying that candidate's txid and output index;
\* its outputs are the recipient output alone or followed by the change
\* output, the recipient output worth the send amount in smallest units;
\* a candidate that was not selected is no input.
C24_InputsAndOutputsOfRecord ==
    transaction_data # None =>
        LET ins == transaction_data.inputs
            outs == transaction_data.outputs
        IN  /\ Len(ins) = Len(selected_utxos)
            /\ selected_utxos = SubSeq(utxos, 1, Len(selected_utxos))
            /\ \A i \in DOMAIN ins :
                  /\ ins[i].txid = selected_utxos[i].txid
                  /\ ins[i].vout = selected_utxos[i].vout
            /\ Len(outs) \in {1, 2}
            /\ outs[1].address = to_address
            /\ outs[1].value = amount_satoshis
            /\ Len(outs) = 2 =>
                  /\ outs[2].address = current_wallet.address
                  /\ outs[2].value = total_selected - amount_satoshis - EstimatedFee
                  /\ outs[2].value > 0

\* a record with two inputs that differ, a candidate left unselected, and
\* a change output
C24_Witness ==
    /\ transaction_data # None
    /\ Len(selected_utxos) = 2
    /\ Len(utxos) = 3
    /\ transaction_data.inputs[1] # transaction_data.inputs[2]
    /\ Len(transaction_data.outputs) = 2

\* a record with the recipient output alone
C24_NoChangeOutput ==
    /\ transaction_data # None
    /\ Len(transaction_data.outputs) = 1
    /\ Len(selected_utxos) >= 1

\* the position of the first call of e in the log of bridge calls, 0 if
\* there is none
FirstCall(e) ==
    IF Called(e) THEN CHOOSE i \in 1..Len(calls) :
                         calls[i] = e /\ \A j \in 1..(i - 1) : calls[j] # e
    ELSE 0

\* C29: within one send_transaction call the signer is invoked at most
\* once and the broadcaster at most once; the broadcaster only after the
\* signer returned without error, the signer only after the selection
\* succeeded; if signing fails the broadcaster is never invoked and the
\* signer's error is what send_transaction returns.
C29_SignThenBroadcast ==
    /\ CountCalls(calls, "sign_transaction") <= 1
    /\ CountCalls(calls, "broadcast_transaction") <= 1
    /\ Called("broadcast_transaction") =>
          /\ Called("sign_transaction")
          /\ FirstCall("sign_transaction") < FirstCall("broadcast_transaction")
          /\ signed_tx # None
          /\ "error" \notin DOMAIN signed_tx
          /\ signed_tx.txid \in TxIds
    /\ Called("sign_transaction") =>
          /\ SelectionRan
          /\ total_selected >= total_needed
          /\ selected_utxos # <<>>
          /\ transaction_data # None
    /\ (signed_tx # None /\ "error" \in DOMAIN signed_tx) =>
          /\ ~Called("broadcast_transaction")
          /\ sendPc = "Error"
          /\ send_result = signed_tx

\* the signer returned an error, which is the result of the send
C29_Witness ==
    /\ Called("sign_transaction")
    /\ signed_tx # None
    /\ "error" \in DOMAIN signed_tx
    /\ send_result = [error |-> "sign"]

\* signer and broadcaster were both called, in this order
C29_BothCalled ==
    /\ Called("broadcast_transaction")
    /\ FirstCall("sign_transaction") + 1 = FirstCall("broadcast_transaction")
    /\ sendPc = "BroadcastSuccess"

\* what a method returns when no client is configured
NoClientError == [error |-> "No client configured"]

\* C30: create_client stores current_client before it contacts the bridge
\* and nothing clears it: after a create_client that returned success =
\* False current_client is the given URL, so get_balance, get_address_utxos
\* and send_transaction return "No client configured" only if
\* create_client was never called on the object; send_transaction with no
\* wallet loaded returns "No wallet loaded" without a bridge call.
C30_ClientKeptWalletChecked ==
    /\ [](Called("create_client") => current_client = [url |-> "node"])
    /\ [][current_client # None => current_client' = current_client]_vars
    /\ [](send_result = NoClientError => ~Called("create_client"))
    /\ [][(sendPc = "Idle" /\ current_wallet = None) =>
             /\ sendPc' = "Error"
             /\ send_result' = [error |-> "No wallet loaded"]
             /\ calls' = calls]_vars

\* C30 as amended: the same, the last part for send_transaction with a
\* client configured and no wallet loaded; with neither, it returns
\* "No client configured", also without a bridge call.
C30_ClientKeptWalletCheckedSecond ==
    /\ [](Called("create_client") => current_client = [url |-> "node"])
    /\ [][current_client # None => current_client' = current_client]_vars
    /\ [](send_result = NoClientError => ~Called("create_client"))
    /\ [][(sendPc = "Idle" /\ current_wallet = None) =>
             /\ sendPc' = "Error"
             /\ send_result' = IF current_client = None THEN NoClientError
                               ELSE [error |-> "No wallet loaded"]
             /\ calls' = calls]_vars

\* after a create_client that failed at the bridge, and with no wallet
\* loaded, send_transaction returned "No wallet loaded"; the bridge was
\* called by create_client alone
C30_Witness ==
    /\ calls = <<"create_client">>
    /\ current_client = [url |-> "node"]
    /\ current_wallet = None
    /\ sendPc = "Error"
    /\ send_result = [error |-> "No wallet loaded"]

\* get_balance on an object whose create_client failed reached the bridge
C30_BalanceAfterFailedCreate ==
    /\ calls = <<"create_client", "get_balance">>
    /\ sendPc = "ret_get_balance"
    /\ send_result # NoClientError

\* send_transaction on a new object returned "No client configured"
C30_NoClientFirst ==
    /\ calls = <<>>
    /\ current_wallet = None
    /\ sendPc = "Error"
    /\ send_result = NoClientError

\* C23: a send whose recipient fails the format check (51 characters, the
\* first an S) or whose amount is <= 0 is aborted at once: no candidates
\* are fetched for it, no record is assembled, and neither the signer nor
\* the broadcaster is called, whichever way the send was started.
C23_InvalidSendAborted ==
    (BadRecipient(to_address) \/ NotPositive(amount)) =>
        /\ lookup = "none"
        /\ fetched = <<>>
        /\ transaction_data = None
        /\ ~Called("sign_transaction")
        /\ ~Called("broadcast_transaction")

\* send_transaction, called on an object with a client and a wallet,
\* broadcast a send of an amount below 0 to a recipient of 50 characters
\* that begins with T
C23_InvalidSendBroadcast ==
    /\ BadRecipient(to_address)
    /\ NotPositive(amount)
    /\ amount_satoshis < 0
    /\ sendPc = "BroadcastSuccess"
    /\ send_result.success

\* the send command left before send_transaction for such a send
C23_CommandExits ==
    /\ sendPc = "exit"
    /\ Called("load_wallet")
    /\ current_wallet # None
    /\ BadRecipient(to_address) \/ NotPositive(amount)

====
